---------------------------- MODULE Spec2Model ----------------------------
(***************************************************************************)
(* A model of uw_stats/stats/scraper.py: the page/post arithmetic, the     *)
(* range selection of construct_dataframe, the field extractors, the noise *)
(* canonicalizer clean_noisy_tags and the rule engine rules_reworked.      *)
(*                                                                         *)
(* Text is modelled as a sequence of characters, each character a string   *)
(* naming it ("H", "k", "backslash", "emdash", ...).  A markup node is a   *)
(* record [tag, cls, has_attr, attr, text, kids].                          *)
(***************************************************************************)
EXTENDS Integers, Sequences, FiniteSets, TLC

VARIABLES
    \* get_page_for_message / get_first_post_from_page / get_last_post_from_page
    post_num, page_num, first_post, last_post, page_of_first,
    \* construct_dataframe: the directory, the two range arguments, the rows
    dir, pagerange, postrange, series_list, df_pc,
    \* get_amount_of_likes: the reactions element as passed in, the (mutable)
    \* reactions element, the value returned
    likes_arg, likes_bar, like_count, likes_pc,
    \* get_list_of_mentioned_usernames: the anchors of the message, the list
    anchors, mentioned_list, mentions_pc,
    \* rules_reworked and get_amount_of_words: the content text of the record,
    \* the local content after the two strips, the mapping returned, the
    \* record's word count
    content, rules_content, compliance, rules_done, word_count, words_done,
    \* clean_noisy_tags: the children of the message as passed in, the
    \* (mutable) children, the children after the first run, the number of
    \* runs made, the exception raised
    node_arg, node, node_first, clean_runs, clean_error,
    \* construct_dataframe, one message: the message as parsed, the (mutable)
    \* message, the copy taken of it, the fields gathered for its row, the
    \* position in the loop body, the exception raised, the steps made
    message_arg, message, unmodified_message, row, msg_pc, msg_error,
    steps_done

vars == <<post_num, page_num, first_post, last_post, page_of_first,
          dir, pagerange, postrange, series_list, df_pc,
          likes_arg, likes_bar, like_count, likes_pc,
          anchors, mentioned_list, mentions_pc,
          content, rules_content, compliance, rules_done, word_count, words_done,
          node_arg, node, node_first, clean_runs, clean_error,
          message_arg, message, unmodified_message, row, msg_pc, msg_error,
          steps_done>>

varsPages == <<post_num, page_num, first_post, last_post, page_of_first>>
varsDf    == <<dir, pagerange, postrange, series_list, df_pc>>
varsLikes == <<likes_arg, likes_bar, like_count, likes_pc>>
varsMentions == <<anchors, mentioned_list, mentions_pc>>
varsRules == <<content, rules_content, compliance, rules_done, word_count, words_done>>
varsClean == <<node_arg, node, node_first, clean_runs, clean_error>>
varsMsg == <<message_arg, message, unmodified_message, row, msg_pc, msg_error,
             steps_done>>

\* A range argument left at its default (None).
NoRange == [given |-> FALSE, start |-> 0, stop |-> 0]

(***************************************************************************)
(* Bounds of the model.                                                    *)
(***************************************************************************)
MaxPost == 130
MaxPage == 3

(***************************************************************************)
(* Page / post arithmetic (scraper.py 30-63).                              *)
(***************************************************************************)
PageSize == 20

\* A plausible slip: floor division instead of math.ceil.
get_page_for_message_floor(p) == p \div PageSize

\* math.ceil(post_num / 20).  The quotient is a float: below 2^49 * 20 it is
\* close enough to the exact quotient that its ceiling is the integer ceiling.
get_page_for_message(p) ==
    IF p % PageSize = 0 THEN p \div PageSize ELSE (p \div PageSize) + 1

get_first_post_from_page(pg) == pg * PageSize - (PageSize - 1)

get_last_post_from_page(pg) == pg * PageSize

IdlePages ==
    /\ post_num = 0 /\ page_num = 0 /\ first_post = 0
    /\ last_post = 0 /\ page_of_first = 0

InitPages ==
    /\ post_num \in 1..MaxPost
    /\ page_num = 0 /\ first_post = 0 /\ last_post = 0 /\ page_of_first = 0

PageForMessage ==
    /\ post_num > 0 /\ page_num = 0
    /\ page_num' = get_page_for_message(post_num)
    /\ UNCHANGED <<post_num, first_post, last_post, page_of_first>>

FirstPostFromPage ==
    /\ page_num > 0 /\ first_post = 0
    /\ first_post' = get_first_post_from_page(page_num)
    /\ UNCHANGED <<post_num, page_num, last_post, page_of_first>>

LastPostFromPage ==
    /\ page_num > 0 /\ last_post = 0
    /\ last_post' = get_last_post_from_page(page_num)
    /\ UNCHANGED <<post_num, page_num, first_post, page_of_first>>

PageOfFirstPost ==
    /\ first_post > 0 /\ page_of_first = 0
    /\ page_of_first' = get_page_for_message(first_post)
    /\ UNCHANGED <<post_num, page_num, first_post, last_post>>

(***************************************************************************)
(* construct_dataframe: which messages get a row (scraper.py 110-161,      *)
(* 228).  A range is NoRange or range(start, stop), step 1.                *)
(***************************************************************************)
\* bool(range): an empty range is falsy, like None.
Truthy(r) == r.given /\ r.start < r.stop

InRange(n, r) == r.start <= n /\ n < r.stop

\* The ascending sequence a, a+1, ..., b.
SeqFromTo(a, b) == [i \in 1..(b - a + 1) |-> a + i - 1]

\* sorted(Path(path).iterdir(), key=first digit run of the name): the page
\* numbers of the files, ascending (the key is compared as a string, which
\* for the one-digit page numbers of the model is the numeric order).
SortedFiles(d) == SelectSeq(SeqFromTo(1, MaxPage), LAMBDA pg : pg \in d)

\* find_all_messages over a page file, each with its get_post_num: a page of
\* the archive holds the posts first..last of its number.
PostsInFile(pg) ==
    SeqFromTo(get_first_post_from_page(pg), get_last_post_from_page(pg))

\* The range checks on a file: TRUE when the file is skipped (continue).
SkipFile(pg, pr, qr) ==
    \/ Truthy(pr) /\ ~InRange(pg, pr)
    \/ /\ Truthy(qr)
       /\ ~InRange(get_first_post_from_page(pg), qr)
       /\ ~InRange(get_last_post_from_page(pg), qr)

\* The rows one file appends: the messages that pass the post range check.
RowsOfFile(pg, qr) ==
    LET kept == SelectSeq(PostsInFile(pg),
                          LAMBDA n : ~(Truthy(qr) /\ ~InRange(n, qr)))
    IN  [i \in 1..Len(kept) |-> [post_num |-> kept[i], page_num |-> pg]]

RECURSIVE RowsOfFiles(_, _, _)
RowsOfFiles(files, pr, qr) ==
    IF files = <<>> THEN <<>>
    ELSE (IF SkipFile(Head(files), pr, qr) THEN <<>>
          ELSE RowsOfFile(Head(files), qr))
         \o RowsOfFiles(Tail(files), pr, qr)

PageRanges ==
    {r \in [given : {TRUE}, start : 1..MaxPage, stop : 1..(MaxPage + 1)] :
        r.start <= r.stop}

PostRanges ==
    {r \in [given : {TRUE}, start : 1..(MaxPage * PageSize),
             stop : 1..(MaxPage * PageSize + 1)] : r.start <= r.stop}

IdleDf ==
    /\ dir = {} /\ pagerange = NoRange /\ postrange = NoRange
    /\ series_list = <<>> /\ df_pc = "idle"

InitDf ==
    /\ dir \in SUBSET (1..MaxPage)
    /\ pagerange \in {NoRange} \cup PageRanges
    /\ postrange \in {NoRange} \cup PostRanges
    /\ series_list = <<>>
    /\ df_pc = "start"

\* if all([pagerange, postrange]): raise ValueError
ConstructDataframeRaise ==
    /\ df_pc = "start"
    /\ Truthy(pagerange) /\ Truthy(postrange)
    /\ df_pc' = "ValueError"
    /\ UNCHANGED <<dir, pagerange, postrange, series_list>>

ConstructDataframe ==
    /\ df_pc = "start"
    /\ ~(Truthy(pagerange) /\ Truthy(postrange))
    /\ series_list' = RowsOfFiles(SortedFiles(dir), pagerange, postrange)
    /\ df_pc' = "done"
    /\ UNCHANGED <<dir, pagerange, postrange>>

(***************************************************************************)
(* Text.  A string is a sequence of characters; a character is a string    *)
(* naming it.                                                              *)
(***************************************************************************)
Digits == <<"0", "1", "2", "3", "4", "5", "6", "7", "8", "9">>

\* \d
IsDigit(c) == \E i \in 1..10 : Digits[i] = c

DigitValue(c) == (CHOOSE i \in 1..10 : Digits[i] = c) - 1

\* int(s) for a run of digits s.
RECURSIVE IntOf(_)
IntOf(s) ==
    IF s = <<>> THEN 0
    ELSE IntOf(SubSeq(s, 1, Len(s) - 1)) * 10 + DigitValue(s[Len(s)])

\* str.isspace() / \s, for the characters of the model.
SpaceChars == {" ", "tab", "newline", "nbsp"}

IsSpace(c) == c \in SpaceChars

\* str.strip(chars): drop the leading and the trailing characters in cs.
RECURSIVE LStrip(_, _)
LStrip(s, cs) ==
    IF s # <<>> /\ Head(s) \in cs THEN LStrip(Tail(s), cs) ELSE s

RECURSIVE RStrip(_, _)
RStrip(s, cs) ==
    IF s # <<>> /\ s[Len(s)] \in cs
    THEN RStrip(SubSeq(s, 1, Len(s) - 1), cs) ELSE s

StripChars(s, cs) == RStrip(LStrip(s, cs), cs)

\* str.strip(): the whitespace characters.
Strip(s) == StripChars(s, SpaceChars)

\* Tag.get_text(strip=True) over the strings of a subtree, in document order:
\* each string is stripped, the empty ones are dropped, the rest are joined
\* with no separator.
RECURSIVE GetTextStrip(_)
GetTextStrip(strings) ==
    IF strings = <<>> THEN <<>>
    ELSE Strip(Head(strings)) \o GetTextStrip(Tail(strings))

\* re.findall(r"\d+", text)[0]: the first maximal run of digits, <<>> when
\* there is none (the IndexError branch).
RECURSIVE TakeDigits(_)
TakeDigits(s) ==
    IF s # <<>> /\ IsDigit(Head(s)) THEN <<Head(s)>> \o TakeDigits(Tail(s))
    ELSE <<>>

RECURSIVE FirstDigitRun(_)
FirstDigitRun(s) ==
    IF s = <<>> THEN <<>>
    ELSE IF IsDigit(Head(s)) THEN TakeDigits(s)
    ELSE FirstDigitRun(Tail(s))

(***************************************************************************)
(* get_amount_of_likes (scraper.py 263-296).  The reactions element        *)
(* (a.reactionsBar-link) is [present, kids]; a kid is a liker name         *)
(* [tag |-> "bdi", text] or a string [tag |-> "text", text].               *)
(***************************************************************************)
Bdi(t) == [tag |-> "bdi", text |-> t]
Txt(t) == [tag |-> "text", text |-> t]

\* likes_bar.find_all('bdi')
FindAllBdi(kids) == SelectSeq(kids, LAMBDA k : k.tag = "bdi")

\* A plausible slip: the liker names are left in place.
DecomposeBdi_kept(kids) == kids

\* for bdi in likes_bar("bdi"): bdi.decompose()
DecomposeBdi(kids) == SelectSeq(kids, LAMBDA k : k.tag # "bdi")

\* The strings of the reactions element, in document order.
StringsOf(kids) == [i \in 1..Len(kids) |-> kids[i].text]

\* The reactions element after the call.
LikesBarAfter(bar) ==
    IF ~bar.present \/ Len(FindAllBdi(bar.kids)) < 3 THEN bar
    ELSE [bar EXCEPT !.kids = DecomposeBdi(bar.kids)]

\* The value returned.
get_amount_of_likes(bar) ==
    IF ~bar.present THEN 0
    ELSE LET num_likes == Len(FindAllBdi(bar.kids))
             text      == GetTextStrip(StringsOf(LikesBarAfter(bar).kids))
             found     == FirstDigitRun(text)
         IN  IF num_likes < 3 THEN num_likes
             ELSE IF found # <<>> THEN IntOf(found) + num_likes
             ELSE num_likes

MaxKids == 5

BarKids ==
    { Bdi(<<"A", "l">>), Bdi(<<"B", "7">>),
      Txt(<<",", " ">>), Txt(<<" ", "u", "5", " ", "w">>),
      Txt(<<"1">>), Txt(<<"2", " ">>) }

RECURSIVE SeqsUpTo(_, _)
SeqsUpTo(S, n) ==
    IF n = 0 THEN {<<>>}
    ELSE LET shorter == SeqsUpTo(S, n - 1)
         IN  shorter \cup {Append(q, x) : q \in shorter, x \in S}

NoBar == [present |-> FALSE, kids |-> <<>>]

IdleLikes ==
    /\ likes_arg = NoBar /\ likes_bar = NoBar
    /\ like_count = 0 /\ likes_pc = "idle"

InitLikes ==
    /\ likes_arg \in {NoBar} \cup
                     {[present |-> TRUE, kids |-> q] : q \in SeqsUpTo(BarKids, MaxKids)}
    /\ likes_bar = likes_arg
    /\ like_count = 0
    /\ likes_pc = "start"

GetAmountOfLikes ==
    /\ likes_pc = "start"
    /\ like_count' = get_amount_of_likes(likes_bar)
    /\ likes_bar' = LikesBarAfter(likes_bar)
    /\ likes_pc' = "done"
    /\ UNCHANGED likes_arg

(***************************************************************************)
(* get_list_of_mentioned_usernames (scraper.py 379-397).  An anchor is     *)
(* [cls, text]: its style class and its one string.                        *)
(***************************************************************************)
\* message.find_all("a", class_="username")
FindAllUsername(as) == SelectSeq(as, LAMBDA a : a.cls = "username")

\* uname := mention.get_text(strip=True)
Uname(a) == GetTextStrip(<<a.text>>)

\* uname[0] raises IndexError on an empty uname.
MentionsRaises(as) ==
    \E i \in 1..Len(FindAllUsername(as)) : Uname(FindAllUsername(as)[i]) = <<>>

\* uname[1:]
MentionName(a) == Tail(Uname(a))

get_list_of_mentioned_usernames(as) ==
    LET found == SelectSeq(FindAllUsername(as), LAMBDA a : Uname(a)[1] = "@")
    IN  [i \in 1..Len(found) |-> MentionName(found[i])]

MaxAnchors == 3

AnchorChoices ==
    { [cls |-> "username", text |-> <<" ", "@", "A", "l">>],
      [cls |-> "username", text |-> <<"@", "B", "o">>],
      [cls |-> "username", text |-> <<"C", "a">>],
      [cls |-> "username", text |-> <<"@">>],
      [cls |-> "username", text |-> <<>>],
      [cls |-> "username", text |-> <<" ">>],
      [cls |-> "link", text |-> <<"@", "D">>] }

IdleMentions ==
    /\ anchors = <<>> /\ mentioned_list = <<>> /\ mentions_pc = "idle"

InitMentions ==
    /\ anchors \in SeqsUpTo(AnchorChoices, MaxAnchors)
    /\ mentioned_list = <<>>
    /\ mentions_pc = "start"

GetMentionsRaise ==
    /\ mentions_pc = "start"
    /\ MentionsRaises(anchors)
    /\ mentions_pc' = "IndexError"
    /\ UNCHANGED <<anchors, mentioned_list>>

GetMentions ==
    /\ mentions_pc = "start"
    /\ ~MentionsRaises(anchors)
    /\ mentioned_list' = get_list_of_mentioned_usernames(anchors)
    /\ mentions_pc' = "done"
    /\ UNCHANGED anchors

(***************************************************************************)
(* _count_words / get_amount_of_words (scraper.py 400-409, 433-444) and    *)
(* rules_reworked (scraper.py 19-24, 546-595).                             *)
(***************************************************************************)
\* The characters of the raw string WHITESPACES.  The string is raw, so each
\* \xad, \u061c, ... stands for its own characters (a backslash, x or u, and
\* hexadecimal digits), not for the code point it names; only the characters
\* typed literally (U+034F, U+115F, U+1160, U+17B4, U+17B5, the space) are
\* themselves in the string.
WHITESPACES ==
    { "backslash", "x", "u", "a", "b", "c", "d", "e", "f",
      "0", "1", "2", "3", "4", "5", "6", "7", "8", "9", " ",
      "cgj", "hangul_choseong_filler", "hangul_jungseong_filler",
      "khmer_aq", "khmer_aa" }

\* The characters of the raw string PUNCTUATION (last_char in PUNCTUATION):
\* the backslashes written as escapes are characters of the string.
PUNCTUATION ==
    { ".", "?", "!", "backslash", "dquote", "low9dquote", "ldquote",
      "low9quote", "lsquote", "raquo", "laquo", "lsaquo", "rsaquo", ",", ";",
      ":", "'", "rsquote", "endash", "emdash", "hyphen", "-", "middot", "/",
      "(", ")", "[", "]", "<", ">", "{", "}", "ellipsis", "index", "interrobang",
      "invexcl", "invquest", "invinterrobang", "ideocomma" }

\* The character class [\s{PUNCTUATION}] of the split in rules_reworked: in
\* the class each backslash escapes the character after it and is no member.
RulesDelimiters == SpaceChars \cup (PUNCTUATION \ {"backslash"})

\* The character class [\s{string.punctuation}] of _count_words: ASCII
\* punctuation, the backslash escaping the "]" after it.
CountWordsDelimiters ==
    SpaceChars \cup
    { "!", "dquote", "#", "$", "%", "&", "'", "(", ")", "*", "+", ",", "-", ".",
      "/", ":", ";", "<", "=", ">", "?", "@", "[", "]", "^", "_", "backtick",
      "{", "|", "}", "~" }

\* re.split on a class of single characters: the tokens between the
\* delimiters, the empty ones kept.
RECURSIVE Split(_, _, _)
Split(s, delims, cur) ==
    IF s = <<>> THEN <<cur>>
    ELSE IF Head(s) \in delims THEN <<cur>> \o Split(Tail(s), delims, <<>>)
    ELSE Split(Tail(s), delims, Append(cur, Head(s)))

_count_words(string_) == Len(Split(string_, CountWordsDelimiters, <<>>))

\* \p{L} and str.isupper(), for the characters of the model.
UpperLetters == {"A", "B", "C", "D", "H"}
LowerLetters == {"a", "b", "c", "d", "e", "f", "k", "l", "o", "u", "w", "x"}
IsLetter(c) == c \in UpperLetters \cup LowerLetters

\* emojis.is_emoji, the external classifier.
is_emoji(c) == c = "emoji"

\* content.strip() and then content.strip(WHITESPACES)
RulesStrip(s) == StripChars(Strip(s), WHITESPACES)

WordCountRule(s) == Len(Split(s, RulesDelimiters, <<>>)) >= 5

\* re.search('\\p{L}', content) and .isupper() of the match
RECURSIVE FirstLetterRule(_)
FirstLetterRule(s) ==
    IF s = <<>> THEN FALSE
    ELSE IF IsLetter(Head(s)) THEN Head(s) \in UpperLetters
    ELSE FirstLetterRule(Tail(s))

\* A plausible slip: the emoji alternative is left out.
PunctuationRule_no_emoji(last_char) == last_char \in PUNCTUATION

PunctuationRule(last_char) == last_char \in PUNCTUATION \/ is_emoji(last_char)

AllFail == [word_count |-> FALSE, first_letter |-> FALSE, punctuation |-> FALSE]

rules_reworked(s) ==
    LET c == RulesStrip(s)
    IN  IF c = <<>> THEN AllFail
        ELSE [word_count   |-> WordCountRule(c),
              first_letter |-> FirstLetterRule(c),
              punctuation  |-> PunctuationRule(c[Len(c)])]

MaxLen == 4

ContentChars ==
    {"H", "k", "a", " ", "tab", "backslash", ".", "_", "emdash", "emoji", "zwsp"}

IdleRules ==
    /\ content = <<>> /\ rules_content = <<>> /\ compliance = AllFail
    /\ rules_done = FALSE /\ word_count = 0 /\ words_done = FALSE

InitRules ==
    /\ content \in SeqsUpTo(ContentChars, MaxLen)
    /\ rules_content = <<>> /\ compliance = AllFail
    /\ rules_done = FALSE /\ word_count = 0 /\ words_done = FALSE

\* word_count = get_amount_of_words(content_tag)
GetAmountOfWords ==
    /\ ~words_done
    /\ word_count' = _count_words(content)
    /\ words_done' = TRUE
    /\ UNCHANGED <<content, rules_content, compliance, rules_done>>

\* rules_compliance_check_result = rules_reworked(content)
RulesReworked ==
    /\ ~rules_done
    /\ rules_content' = RulesStrip(content)
    /\ compliance' = rules_reworked(content)
    /\ rules_done' = TRUE
    /\ UNCHANGED <<content, word_count, words_done>>

(***************************************************************************)
(* Markup.  A node is [tag, cls, has_attr, attr, text, kids]: its tag      *)
(* ("text" for a string), its style class, the one attribute the code      *)
(* reads from it (alt of an image, data-quote of a quote block) and        *)
(* whether it is present, its own string, and its child nodes.             *)
(***************************************************************************)
Node(tag, cls, has_attr, attr, text, kids) ==
    [tag |-> tag, cls |-> cls, has_attr |-> has_attr, attr |-> attr,
     text |-> text, kids |-> kids]

Str(t) == Node("text", "", FALSE, <<>>, t, <<>>)

\* The strings of a sequence of nodes, in document order.
RECURSIVE Strings(_)
Strings(nodes) ==
    IF nodes = <<>> THEN <<>>
    ELSE LET n == Head(nodes)
         IN  (IF n.tag = "img" THEN <<>>
              ELSE IF n.kids # <<>> THEN Strings(n.kids)
              ELSE <<n.text>>)
             \o Strings(Tail(nodes))

\* tag.get_text(strip=True)
get_text(nodes) == GetTextStrip(Strings(nodes))

\* find_all: the nodes of a subtree, in document order.
RECURSIVE Descendants(_)
Descendants(nodes) ==
    IF nodes = <<>> THEN <<>>
    ELSE <<Head(nodes)>> \o Descendants(Head(nodes).kids)
         \o Descendants(Tail(nodes))

IsEmoji(n) == n.tag = "img" /\ n.cls = "smilie"

(***************************************************************************)
(* clean_noisy_tags (scraper.py 299-337).                                  *)
(***************************************************************************)
\* The emoji loop.  For each img.smilie in document order: "." is inserted
\* after it, then emoji["alt"] is read, the alt is inserted before it and
\* the image removed.  A missing alt makes emoji["alt"] raise KeyError, which
\* the except clause (TypeError, ValueError) does not catch: the loop ends
\* there, the "." already inserted.  The result is [nodes, raised].
RECURSIVE EmojiLoop(_)
EmojiLoop(nodes) ==
    IF nodes = <<>> THEN [nodes |-> <<>>, raised |-> FALSE]
    ELSE LET n == Head(nodes)
         IN  IF IsEmoji(n) /\ ~n.has_attr
             THEN [nodes |-> <<n, Str(<<".">>)>> \o Tail(nodes), raised |-> TRUE]
             ELSE IF IsEmoji(n)
             THEN LET rest == EmojiLoop(Tail(nodes))
                  IN  [nodes  |-> <<Str(n.attr), Str(<<".">>)>> \o rest.nodes,
                       raised |-> rest.raised]
             ELSE LET in == EmojiLoop(n.kids)
                  IN  IF in.raised
                      THEN [nodes  |-> <<[n EXCEPT !.kids = in.nodes]>> \o Tail(nodes),
                            raised |-> TRUE]
                      ELSE LET rest == EmojiLoop(Tail(nodes))
                           IN  [nodes  |-> <<[n EXCEPT !.kids = in.nodes]>> \o rest.nodes,
                                raised |-> rest.raised]

Boilerplate == <<"A", "n", "s", "e", "h", "e", "n", " ", "a", "u", "f">>

\* if p.get_text(strip=True) == "Ansehen auf"
IsBoilerplateP(n) == n.tag = "p" /\ get_text(<<n>>) = Boilerplate

\* for p in message.find_all("p"): ... p.decompose()
RECURSIVE DecomposeBoilerplate(_)
DecomposeBoilerplate(nodes) ==
    IF nodes = <<>> THEN <<>>
    ELSE LET n == Head(nodes)
         IN  (IF IsBoilerplateP(n) THEN <<>>
              ELSE <<[n EXCEPT !.kids = DecomposeBoilerplate(n.kids)]>>)
             \o DecomposeBoilerplate(Tail(nodes))

\* useless_tags
IsUseless(n) ==
    \/ n.tag \in {"script", "table", "blockquote"}
    \/ n.tag = "div" /\ n.cls = "message-lastEdit"

\* for tag, class_ in useless_tags: ... find.decompose()
RECURSIVE DecomposeUseless(_)
DecomposeUseless(nodes) ==
    IF nodes = <<>> THEN <<>>
    ELSE LET n == Head(nodes)
         IN  (IF IsUseless(n) THEN <<>>
              ELSE <<[n EXCEPT !.kids = DecomposeUseless(n.kids)]>>)
             \o DecomposeUseless(Tail(nodes))

\* The whole function: [nodes, raised].
clean_noisy_tags(nodes) ==
    LET e == EmojiLoop(nodes)
    IN  IF e.raised THEN e
        ELSE [nodes  |-> DecomposeUseless(DecomposeBoilerplate(e.nodes)),
              raised |-> FALSE]

\* The nodes of the model's messages.
Hi       == Str(<<"H", "i">>)
AnsehenAuf == Str(Boilerplate)
Smilie   == Node("img", "smilie", TRUE, <<":", "x", ":">>, <<>>, <<>>)
SmilieNoAlt == Node("img", "smilie", FALSE, <<>>, <<>>, <<>>)
Table    == Node("table", "", FALSE, <<>>, <<"T">>, <<>>)
Script   == Node("script", "", FALSE, <<>>, <<"S">>, <<>>)
Quote    == Node("blockquote", "bbCodeBlock--quote", TRUE, <<"A", "l">>, <<"Q">>, <<>>)
LastEdit == Node("div", "message-lastEdit", FALSE, <<>>, <<"E">>, <<>>)
Spoiler  == Node("div", "bbCodeSpoiler", FALSE, <<>>, <<"P">>, <<>>)
Mention  == Node("a", "username", FALSE, <<>>, <<"@", "A", "l">>, <<>>)
UserLink == Node("a", "username", FALSE, <<>>, <<"C", "a">>, <<>>)
P(kids)  == Node("p", "", FALSE, <<>>, <<>>, kids)

MaxPKids == 2
MaxBody == 2

Paragraphs ==
    {P(k) : k \in SeqsUpTo({AnsehenAuf, Table, Quote, Smilie}, MaxPKids) \ {<<>>}}

CleanNodes ==
    {Hi, AnsehenAuf, Smilie, SmilieNoAlt, Table, Script, Quote, LastEdit}
    \cup Paragraphs

IdleClean ==
    /\ node_arg = <<>> /\ node = <<>> /\ node_first = <<>>
    /\ clean_runs = 0 /\ clean_error = "idle"

InitClean ==
    /\ node_arg \in SeqsUpTo(CleanNodes, MaxBody)
    /\ node = node_arg
    /\ node_first = <<>>
    /\ clean_runs = 0
    /\ clean_error = "none"

\* clean_noisy_tags(message), on a message as parsed.
CleanNoisyTags ==
    /\ clean_runs = 0 /\ clean_error = "none"
    /\ node' = clean_noisy_tags(node).nodes
    /\ node_first' = node'
    /\ clean_error' = IF clean_noisy_tags(node).raised THEN "KeyError" ELSE "none"
    /\ clean_runs' = 1
    /\ UNCHANGED node_arg

\* clean_noisy_tags(message) again, on the node the first run returned with.
CleanNoisyTagsAgain ==
    /\ clean_runs = 1 /\ clean_error = "none"
    /\ node' = clean_noisy_tags(node).nodes
    /\ clean_error' = IF clean_noisy_tags(node).raised THEN "KeyError" ELSE "none"
    /\ clean_runs' = 2
    /\ UNCHANGED <<node_arg, node_first>>

(***************************************************************************)
(* The field extractors that read the unmodified message (scraper.py       *)
(* 340-376, 412-430, 447-458).                                             *)
(***************************************************************************)
\* message.find("div", class_="message-lastEdit")
has_edited_message(body) ==
    \E i \in 1..Len(Descendants(body)) :
        Descendants(body)[i].tag = "div" /\ Descendants(body)[i].cls = "message-lastEdit"

\* message.find_all("blockquote", class_="bbCodeBlock--quote")
FindAllQuotes(body) ==
    SelectSeq(Descendants(body),
              LAMBDA n : n.tag = "blockquote" /\ n.cls = "bbCodeBlock--quote")

get_amount_of_quotes(body) == Len(FindAllQuotes(body))

get_list_of_quoted_usernames(body) ==
    [i \in 1..Len(FindAllQuotes(body)) |-> FindAllQuotes(body)[i].attr]

get_amount_of_spoilers(body) ==
    Len(SelectSeq(Descendants(body),
                  LAMBDA n : n.tag = "div" /\ n.cls = "bbCodeSpoiler"))

\* The anchors of the message, for get_list_of_mentioned_usernames.
FindAllAnchors(body) == SelectSeq(Descendants(body), LAMBDA n : n.tag = "a")

\* message.find_all("img", class_="smilie")
FindAllEmoji(body) == SelectSeq(Descendants(body), IsEmoji)

\* emoji["alt"] raises KeyError on an image without alt.
EmojiMappingRaises(body) ==
    \E i \in 1..Len(FindAllEmoji(body)) : ~FindAllEmoji(body)[i].has_attr

get_mapping_of_emojis_and_frequency(body) ==
    LET es == FindAllEmoji(body)
    IN  [alt \in {es[i].attr : i \in 1..Len(es)} |->
            Cardinality({i \in 1..Len(es) : es[i].attr = alt})]

(***************************************************************************)
(* construct_dataframe, the body of the loop over the messages             *)
(* (scraper.py 167-202).  A message is [author, datetime, bar, body]: its  *)
(* data-author, the datetime of its time marker, its reactions element and *)
(* the children of its content.                                            *)
(***************************************************************************)
\* A plausible slip: the content text is read before clean_noisy_tags.
StepOrder_content_first ==
    << "copy", "author", "creation_datetime", "is_edited", "quote_count",
       "quoted_list", "spoiler_count", "mentioned_list",
       "emoji_frequency_mapping", "like_count", "content", "clean_noisy_tags",
       "word_count", "rules" >>

\* The statements of the loop body, in the order written.
StepOrder ==
    << "copy", "author", "creation_datetime", "is_edited", "quote_count",
       "quoted_list", "spoiler_count", "mentioned_list",
       "emoji_frequency_mapping", "like_count", "clean_noisy_tags", "content",
       "word_count", "rules" >>

At(step) ==
    /\ msg_error = "none"
    /\ msg_pc \in 1..Len(StepOrder)
    /\ StepOrder[msg_pc] = step

Advance(step) ==
    /\ msg_pc' = msg_pc + 1
    /\ steps_done' = Append(steps_done, step)

NoMessage == [author |-> "", datetime |-> "", bar |-> NoBar, body |-> <<>>]

NoRow ==
    [author |-> "", creation_datetime |-> "", is_edited |-> FALSE,
     quote_count |-> 0, quoted_list |-> <<>>, spoiler_count |-> 0,
     mentioned_list |-> <<>>, mentions_count |-> 0,
     emoji_frequency_mapping |-> <<>>, emoji_count |-> 0, like_count |-> 0,
     content |-> <<>>, word_count |-> 0, compliance |-> AllFail]

MaxMsgBody == 2

EmptyLink == Node("a", "username", FALSE, <<>>, <<>>, <<>>)

MsgNodes ==
    { Hi, Smilie, SmilieNoAlt, Quote, LastEdit, Spoiler, Mention, UserLink,
      EmptyLink, Table, P(<<AnsehenAuf>>) }

MsgBars ==
    { NoBar,
      [present |-> TRUE,
       kids |-> << Bdi(<<"A", "l">>), Bdi(<<"B", "7">>), Bdi(<<"A", "l">>),
                   Txt(<<" ", "u", "5", " ", "w">>) >>] }

IdleMsg ==
    /\ message_arg = NoMessage /\ message = NoMessage
    /\ unmodified_message = NoMessage /\ row = NoRow
    /\ msg_pc = 0 /\ msg_error = "idle" /\ steps_done = <<>>

InitMsg ==
    /\ message_arg \in [author : {"Al"}, datetime : {"2023-01-01T00:00:00+0100"},
                         bar : MsgBars, body : SeqsUpTo(MsgNodes, MaxMsgBody)]
    /\ message = message_arg
    /\ unmodified_message = NoMessage
    /\ row = NoRow
    /\ msg_pc = 1 /\ msg_error = "none" /\ steps_done = <<>>

\* unmodified_message = copy.copy(message): the copy of a Tag is a new tree.
CopyMessage ==
    /\ At("copy") /\ Advance("copy")
    /\ unmodified_message' = message
    /\ UNCHANGED <<message_arg, message, row, msg_error>>

Author ==
    /\ At("author") /\ Advance("author")
    /\ row' = [row EXCEPT !.author = unmodified_message.author]
    /\ UNCHANGED <<message_arg, message, unmodified_message, msg_error>>

CreationDatetime ==
    /\ At("creation_datetime") /\ Advance("creation_datetime")
    /\ row' = [row EXCEPT !.creation_datetime = unmodified_message.datetime]
    /\ UNCHANGED <<message_arg, message, unmodified_message, msg_error>>

IsEdited ==
    /\ At("is_edited") /\ Advance("is_edited")
    /\ row' = [row EXCEPT !.is_edited = has_edited_message(unmodified_message.body)]
    /\ UNCHANGED <<message_arg, message, unmodified_message, msg_error>>

QuoteCount ==
    /\ At("quote_count") /\ Advance("quote_count")
    /\ row' = [row EXCEPT !.quote_count = get_amount_of_quotes(unmodified_message.body)]
    /\ UNCHANGED <<message_arg, message, unmodified_message, msg_error>>

QuotedList ==
    /\ At("quoted_list") /\ Advance("quoted_list")
    /\ row' = [row EXCEPT !.quoted_list =
                              get_list_of_quoted_usernames(unmodified_message.body)]
    /\ UNCHANGED <<message_arg, message, unmodified_message, msg_error>>

SpoilerCount ==
    /\ At("spoiler_count") /\ Advance("spoiler_count")
    /\ row' = [row EXCEPT !.spoiler_count =
                              get_amount_of_spoilers(unmodified_message.body)]
    /\ UNCHANGED <<message_arg, message, unmodified_message, msg_error>>

MentionedList ==
    /\ At("mentioned_list")
    /\ LET as == FindAllAnchors(unmodified_message.body)
       IN  IF MentionsRaises(as)
           THEN /\ msg_error' = "IndexError"
                /\ UNCHANGED <<row, msg_pc, steps_done>>
           ELSE /\ msg_error' = msg_error
                /\ Advance("mentioned_list")
                /\ row' = [row EXCEPT
                      !.mentioned_list = get_list_of_mentioned_usernames(as),
                      !.mentions_count = Len(get_list_of_mentioned_usernames(as))]
    /\ UNCHANGED <<message_arg, message, unmodified_message>>

EmojiFrequencyMapping ==
    /\ At("emoji_frequency_mapping")
    /\ IF EmojiMappingRaises(unmodified_message.body)
       THEN /\ msg_error' = "KeyError"
            /\ UNCHANGED <<row, msg_pc, steps_done>>
       ELSE /\ msg_error' = msg_error
            /\ Advance("emoji_frequency_mapping")
            /\ row' = [row EXCEPT
                  !.emoji_frequency_mapping =
                      get_mapping_of_emojis_and_frequency(unmodified_message.body),
                  !.emoji_count = Len(FindAllEmoji(unmodified_message.body))]
    /\ UNCHANGED <<message_arg, message, unmodified_message>>

\* like_count = get_amount_of_likes(message)  # modifies
LikeCount ==
    /\ At("like_count") /\ Advance("like_count")
    /\ row' = [row EXCEPT !.like_count = get_amount_of_likes(message.bar)]
    /\ message' = [message EXCEPT !.bar = LikesBarAfter(message.bar)]
    /\ UNCHANGED <<message_arg, unmodified_message, msg_error>>

\* clean_noisy_tags(message)  # modifies
CleanMessage ==
    /\ At("clean_noisy_tags")
    /\ message' = [message EXCEPT !.body = clean_noisy_tags(message.body).nodes]
    /\ IF clean_noisy_tags(message.body).raised
       THEN msg_error' = "KeyError" /\ UNCHANGED <<msg_pc, steps_done>>
       ELSE msg_error' = msg_error /\ Advance("clean_noisy_tags")
    /\ UNCHANGED <<message_arg, unmodified_message, row>>

\* content = content_tag.get_text(strip=True)  # needs modified
Content ==
    /\ At("content") /\ Advance("content")
    /\ row' = [row EXCEPT !.content = get_text(message.body)]
    /\ UNCHANGED <<message_arg, message, unmodified_message, msg_error>>

\* word_count = get_amount_of_words(content_tag)
WordCount ==
    /\ At("word_count") /\ Advance("word_count")
    /\ row' = [row EXCEPT !.word_count = _count_words(get_text(message.body))]
    /\ UNCHANGED <<message_arg, message, unmodified_message, msg_error>>

\* rules_compliance_check_result = rules_reworked(content)
Rules ==
    /\ At("rules") /\ Advance("rules")
    /\ row' = [row EXCEPT !.compliance = rules_reworked(row.content)]
    /\ UNCHANGED <<message_arg, message, unmodified_message, msg_error>>

(***************************************************************************)
(* Specifications.                                                         *)
(***************************************************************************)
\* Each specification runs one part of the program; the variables of the
\* other parts rest.
restPages == <<varsDf, varsLikes, varsMentions, varsRules, varsClean, varsMsg>>

RestPages ==
    IdleDf /\ IdleLikes /\ IdleMentions
    /\ IdleRules /\ IdleClean /\ IdleMsg

restDf == <<varsPages, varsLikes, varsMentions, varsRules, varsClean, varsMsg>>

RestDf ==
    IdlePages /\ IdleLikes /\ IdleMentions
    /\ IdleRules /\ IdleClean /\ IdleMsg

restLikes == <<varsPages, varsDf, varsMentions, varsRules, varsClean, varsMsg>>

RestLikes ==
    IdlePages /\ IdleDf /\ IdleMentions
    /\ IdleRules /\ IdleClean /\ IdleMsg

restMentions == <<varsPages, varsDf, varsLikes, varsRules, varsClean, varsMsg>>

RestMentions ==
    IdlePages /\ IdleDf /\ IdleLikes
    /\ IdleRules /\ IdleClean /\ IdleMsg

restRules == <<varsPages, varsDf, varsLikes, varsMentions, varsClean, varsMsg>>

RestRules ==
    IdlePages /\ IdleDf /\ IdleLikes
    /\ IdleMentions /\ IdleClean /\ IdleMsg

restClean == <<varsPages, varsDf, varsLikes, varsMentions, varsRules, varsMsg>>

RestClean ==
    IdlePages /\ IdleDf /\ IdleLikes
    /\ IdleMentions /\ IdleRules /\ IdleMsg

restMsg == <<varsPages, varsDf, varsLikes, varsMentions, varsRules, varsClean>>

RestMsg ==
    IdlePages /\ IdleDf /\ IdleLikes
    /\ IdleMentions /\ IdleRules /\ IdleClean

\* the page / post arithmetic
NextPages ==
    \/ PageForMessage /\ UNCHANGED restPages
    \/ FirstPostFromPage /\ UNCHANGED restPages
    \/ LastPostFromPage /\ UNCHANGED restPages
    \/ PageOfFirstPost /\ UNCHANGED restPages

StartPages == InitPages /\ RestPages

SpecPages == StartPages /\ [][NextPages]_vars

\* the range selection of construct_dataframe
NextDf ==
    \/ ConstructDataframeRaise /\ UNCHANGED restDf
    \/ ConstructDataframe /\ UNCHANGED restDf

StartDf == InitDf /\ RestDf

SpecDf == StartDf /\ [][NextDf]_vars

\* get_amount_of_likes
NextLikes ==
    GetAmountOfLikes /\ UNCHANGED restLikes

StartLikes == InitLikes /\ RestLikes

SpecLikes == StartLikes /\ [][NextLikes]_vars

\* get_list_of_mentioned_usernames
NextMentions ==
    \/ GetMentionsRaise /\ UNCHANGED restMentions
    \/ GetMentions /\ UNCHANGED restMentions

StartMentions == InitMentions /\ RestMentions

SpecMentions == StartMentions /\ [][NextMentions]_vars

\* rules_reworked and get_amount_of_words on one content text
NextRules ==
    \/ GetAmountOfWords /\ UNCHANGED restRules
    \/ RulesReworked /\ UNCHANGED restRules

StartRules == InitRules /\ RestRules

SpecRules == StartRules /\ [][NextRules]_vars

\* clean_noisy_tags, run once or twice on one message
NextClean ==
    \/ CleanNoisyTags /\ UNCHANGED restClean
    \/ CleanNoisyTagsAgain /\ UNCHANGED restClean

StartClean == InitClean /\ RestClean

SpecClean == StartClean /\ [][NextClean]_vars

\* the loop body of construct_dataframe on one message
NextMsg ==
    \/ CopyMessage /\ UNCHANGED restMsg
    \/ Author /\ UNCHANGED restMsg
    \/ CreationDatetime /\ UNCHANGED restMsg
    \/ IsEdited /\ UNCHANGED restMsg
    \/ QuoteCount /\ UNCHANGED restMsg
    \/ QuotedList /\ UNCHANGED restMsg
    \/ SpoilerCount /\ UNCHANGED restMsg
    \/ MentionedList /\ UNCHANGED restMsg
    \/ EmojiFrequencyMapping /\ UNCHANGED restMsg
    \/ LikeCount /\ UNCHANGED restMsg
    \/ CleanMessage /\ UNCHANGED restMsg
    \/ Content /\ UNCHANGED restMsg
    \/ WordCount /\ UNCHANGED restMsg
    \/ Rules /\ UNCHANGED restMsg

StartMsg == InitMsg /\ RestMsg

SpecMsg == StartMsg /\ [][NextMsg]_vars

C6_PostRangeRows ==
    (df_pc = "done" /\ Truthy(postrange) /\ ~pagerange.given) =>
        \A n \in 1..(MaxPage * PageSize) :
            (\E i \in 1..Len(series_list) : series_list[i].post_num = n)
            <=> (InRange(n, postrange) /\ get_page_for_message(n) \in dir)

(***************************************************************************)
(* C2.  get_amount_of_likes returns 0 without a reactions element, n when  *)
(* the element has n < 3 liker names, and otherwise removes the liker      *)
(* names and returns n plus the first run of digits of the remaining text; *)
(* digits inside liker names never count.                                  *)
(***************************************************************************)
\* The number of liker names of the element passed in.
C2_Names == Cardinality({i \in DOMAIN likes_arg.kids : likes_arg.kids[i].tag = "bdi"})

\* The text of the element passed in, its liker names left out.
C2_RestText ==
    GetTextStrip(StringsOf(SelectSeq(likes_arg.kids, LAMBDA k : k.tag = "text")))

\* t[i..j] is the first maximal run of digits of t.
C2_IsFirstRun(t, i, j) ==
    /\ i <= j
    /\ \A k \in 1..Len(t) : (k < i => ~IsDigit(t[k])) /\ (i <= k /\ k <= j => IsDigit(t[k]))
    /\ (j < Len(t) => ~IsDigit(t[j + 1]))

C2_Common ==
    /\ (~likes_arg.present => like_count = 0 /\ likes_bar = likes_arg)
    /\ (likes_arg.present /\ C2_Names < 3 =>
            like_count = C2_Names /\ likes_bar = likes_arg)
    /\ (likes_arg.present /\ C2_Names >= 3 =>
            /\ \A i \in DOMAIN likes_bar.kids : likes_bar.kids[i].tag # "bdi"
            /\ \A i, j \in 1..Len(C2_RestText) :
                  C2_IsFirstRun(C2_RestText, i, j) =>
                      like_count = C2_Names + IntOf(SubSeq(C2_RestText, i, j)))

C2_NoDigitLeft ==
    /\ likes_arg.present /\ C2_Names >= 3
    /\ \A k \in 1..Len(C2_RestText) : ~IsDigit(C2_RestText[k])

C5_StartsWithAt(a) ==
    a.cls = "username" /\ Strip(a.text) # <<>> /\ Strip(a.text)[1] = "@"

C5_Expected ==
    LET ms == SelectSeq(anchors, C5_StartsWithAt)
    IN  [i \in 1..Len(ms) |-> Tail(Strip(ms[i].text))]

C5_Mentions ==
    mentions_pc \in {"done", "IndexError"} =>
        mentions_pc = "done" /\ mentioned_list = C5_Expected

(***************************************************************************)
(* C3.  rules_reworked reports first_letter = TRUE exactly when the        *)
(* content, with nothing but leading and trailing whitespace removed       *)
(* (ordinary whitespace and the extended whitespace set), contains a       *)
(* letter and the first letter is uppercase; stripping never removes a     *)
(* letter, digit or punctuation character.                                 *)
(***************************************************************************)
\* Ordinary whitespace and the code points the extended set names.
C3_Whitespace ==
    { " ", "tab", "newline", "nbsp",
      "shy", "cgj", "alm", "hangul_choseong_filler", "hangul_jungseong_filler",
      "khmer_aq", "khmer_aa", "mvs", "enquad", "emquad", "zwsp", "zwnj", "zwj",
      "lrm", "rlm", "mmsp", "wj", "idsp", "bom", "vs16" }

C3_Stripped == StripChars(content, C3_Whitespace)

C3_FirstLetterUpper(s) ==
    \E i \in 1..Len(s) :
        /\ s[i] \in UpperLetters
        /\ \A j \in 1..(i - 1) : ~IsLetter(s[j])

C3_Count(c, s) == Cardinality({i \in 1..Len(s) : s[i] = c})

C3_FirstLetter ==
    rules_done =>
        /\ compliance.first_letter <=> C3_FirstLetterUpper(C3_Stripped)
        /\ \A c \in ContentChars \ C3_Whitespace :
              C3_Count(c, rules_content) = C3_Count(c, content)

(***************************************************************************)
(* C4.  For every non-empty stripped content, rules_reworked reports       *)
(* punctuation = TRUE exactly when the last character is in the            *)
(* punctuation set the word_count rule splits on, or is an emoji; a        *)
(* character that is neither a word_count delimiter nor an emoji never     *)
(* passes.                                                                 *)
(***************************************************************************)
C4_Last == rules_content[Len(rules_content)]

C10_RecordContent == Strip(content) = content

C10_WordCount ==
    (words_done /\ rules_done /\ C10_RecordContent) =>
        /\ word_count = Len(Split(content, RulesDelimiters, <<>>))
        /\ compliance.word_count <=> word_count >= 5

(***************************************************************************)
(* C8.  Running clean_noisy_tags a second time on a node it has already    *)
(* canonicalized changes nothing: after one run no emoji image,            *)
(* boilerplate-only paragraph, script, table, quote block or edit marker   *)
(* is left for a second run to act on.                                     *)
(***************************************************************************)
C8_NothingLeft(nodes) ==
    \A i \in 1..Len(Descendants(nodes)) :
        LET n == Descendants(nodes)[i]
        IN  ~IsEmoji(n) /\ ~IsBoilerplateP(n) /\ ~IsUseless(n)

C8_Idempotent ==
    /\ (clean_runs >= 1 /\ clean_error = "none" => C8_NothingLeft(node_first))
    /\ (clean_runs = 2 => node = node_first)

(***************************************************************************)
(* C9.  When a message contains an emoji image with a missing alt          *)
(* attribute, clean_noisy_tags does not raise: no "." is inserted for that *)
(* image, every other emoji image is converted and every script, table,    *)
(* quote block, edit marker and boilerplate paragraph is removed.          *)
(***************************************************************************)
C9_HasMalformed ==
    \E i \in 1..Len(Descendants(node_arg)) :
        IsEmoji(Descendants(node_arg)[i]) /\ ~Descendants(node_arg)[i].has_attr

C9_Dots(nodes) ==
    Cardinality({i \in 1..Len(Descendants(nodes)) :
                    Descendants(nodes)[i] = Str(<<".">>)})

C9_WellFormed(nodes) ==
    Cardinality({i \in 1..Len(Descendants(nodes)) :
                    IsEmoji(Descendants(nodes)[i]) /\ Descendants(nodes)[i].has_attr})

C9_SkipsMalformed ==
    (clean_runs = 1 /\ C9_HasMalformed) =>
        /\ clean_error = "none"
        /\ C9_Dots(node) <= C9_WellFormed(node_arg)
        /\ \A i \in 1..Len(Descendants(node)) :
              LET n == Descendants(node)[i]
              IN  ~(IsEmoji(n) /\ n.has_attr) /\ ~IsBoilerplateP(n) /\ ~IsUseless(n)

(***************************************************************************)
(* C1.  For every message construct_dataframe processes: all the pristine  *)
(* extractors finish before the node is mutated for the first time;        *)
(* get_amount_of_likes runs before clean_noisy_tags; the content text and  *)
(* the word count are read only after clean_noisy_tags; rules_reworked     *)
(* runs last, on that content text.  So the quote count, the edited flag   *)
(* and the emoji mapping describe the original node, and the content text  *)
(* holds no text of a quote block or an edit marker and is read from a     *)
(* node without emoji images.                                              *)
(***************************************************************************)
C1_Pristine ==
    { "author", "creation_datetime", "is_edited", "quote_count", "quoted_list",
      "spoiler_count", "mentioned_list", "emoji_frequency_mapping" }

C1_Done(step) == \E i \in 1..Len(steps_done) : steps_done[i] = step

C1_Before(a, b) ==
    \A j \in 1..Len(steps_done) :
        steps_done[j] = b => \E i \in 1..(j - 1) : steps_done[i] = a

C1_Has(text, c) == \E i \in 1..Len(text) : text[i] = c

C1_Order ==
    /\ \A s \in C1_Pristine :
          /\ C1_Before(s, "like_count") /\ C1_Before(s, "clean_noisy_tags")
          /\ (message # message_arg => C1_Done(s))
    /\ C1_Before("like_count", "clean_noisy_tags")
    /\ C1_Before("clean_noisy_tags", "content")
    /\ C1_Before("clean_noisy_tags", "word_count")
    /\ (C1_Done("rules") =>
            /\ \A i \in 1..Len(StepOrder) : C1_Done(StepOrder[i])
            /\ steps_done[Len(steps_done)] = "rules"
            /\ row.compliance = rules_reworked(row.content))
    /\ (C1_Done("content") =>
            /\ ~C1_Has(row.content, "Q") /\ ~C1_Has(row.content, "E")
            /\ FindAllEmoji(message.body) = <<>>)
    /\ (C1_Done("rules") =>
            /\ row.quote_count =
                  Cardinality({i \in 1..Len(message_arg.body) :
                                  message_arg.body[i] = Quote})
            /\ row.is_edited = (\E i \in 1..Len(message_arg.body) :
                                    message_arg.body[i] = LastEdit)
            /\ \A i \in 1..Len(message_arg.body) :
                  message_arg.body[i] = Smilie =>
                      row.emoji_frequency_mapping[Smilie.attr] =
                          Cardinality({j \in 1..Len(message_arg.body) :
                                          message_arg.body[j] = Smilie}))

C1_Witness ==
    /\ msg_pc = Len(StepOrder) + 1
    /\ message_arg.bar.present
    /\ message_arg.body = <<Quote, Smilie>>
    /\ message # message_arg
    /\ row.quote_count = 1 /\ row.like_count = 8
    /\ row.content = <<":", "x", ":", ".">>

=============================================================================
